---------------------------- MODULE Spec2Model ----------------------------
(***************************************************************************)
(* Model of the RGB image viewer: HistogramManager (src/histogram.py),     *)
(* ImageManager (src/image_manager.py) and the threads of MainApplication  *)
(* (src/gui.py).                                                           *)
(*                                                                         *)
(* Three specifications share the variables:                               *)
(*   Spec        calls of HistogramManager on one pixel buffer;            *)
(*   LoaderSpec  sequential calls of ImageManager;                         *)
(*   GuiSpec     the UI thread and the worker threads of MainApplication.  *)
(***************************************************************************)
EXTENDS Integers, Sequences, FiniteSets, TLC

\* ------------------------------------------------------------------------
\* Bounds of the model
\* ------------------------------------------------------------------------

\* A pixel buffer has height * width <= MaxPixels.
MaxPixels == 4

\* A 3-D pixel buffer has 1..MaxChannels channels.
MaxChannels == 5

\* ------------------------------------------------------------------------
\* Python values
\* ------------------------------------------------------------------------

\* Python's None.
None == [tag |-> "None"]

\* A Python int.
PyInt(n) == [tag |-> "int", val |-> n]

\* A call that has not been made yet.
NotCalled == [tag |-> "NotCalled"]

\* The outcome of a call: a returned value, or an exception surfaced to the caller.
Return(v) == [exc |-> "", val |-> v]

Raise(e) == [exc |-> e, val |-> None]

RECURSIVE GCD(_, _)
GCD(a, b) == IF b = 0 THEN a ELSE GCD(b, a % b)

\* The number n / d (d > 0), kept exact as a fraction in lowest terms; it stands
\* for the Python float the division yields.
Rat(n, d) == [num |-> n \div GCD(n, d), den |-> d \div GCD(n, d)]

\* ------------------------------------------------------------------------
\* numpy arrays: a shape and the samples in row-major order
\* ------------------------------------------------------------------------

RECURSIVE Prod(_)
Prod(shape) == IF shape = <<>> THEN 1 ELSE Head(shape) * Prod(Tail(shape))

\* Mutant of Size: len(channel), the length of the first axis only.
SizeFirstAxis(a) == a.shape[1]

\* ndarray.size
Size(a) == Prod(a.shape)

\* Mutant of Stack3: np.stack([a] * 3, axis=0), the copies on a new first axis.
Stack3Axis0(a) ==
  [shape |-> <<3>> \o a.shape,
   data  |-> [i \in 1..(3 * Len(a.data)) |-> a.data[((i - 1) % Len(a.data)) + 1]]]

\* np.stack([a] * 3, axis=-1) of a 2-D array: every sample three times.
Stack3(a) ==
  [shape |-> a.shape \o <<3>>,
   data  |-> [i \in 1..(3 * Len(a.data)) |-> a.data[((i - 1) \div 3) + 1]]]

\* a[:, :, k] with k counted from 0: IndexError on fewer than three axes or on
\* k outside the third axis, else the array of the samples (i, j, k, ...).
Slice(a, k) ==
  IF Len(a.shape) < 3 \/ k >= a.shape[3]
  THEN Raise("IndexError")
  ELSE LET C == a.shape[3]
           rest == SubSeq(a.shape, 4, Len(a.shape))
           D == Prod(rest)
           n == a.shape[1] * a.shape[2] * D
       IN Return([shape |-> <<a.shape[1], a.shape[2]>> \o rest,
                  data  |-> [m \in 1..n |->
                               a.data[(((m - 1) \div D) * C + k) * D
                                      + ((m - 1) % D) + 1]]])

\* The brightness cutoff of the comparisons channel > 128.
Threshold == 128

\* Mutant of CountGreater: np.sum(channel >= t).
CountGreaterOrEqual(channel, t) ==
  Cardinality({i \in 1..Len(channel.data) : channel.data[i] >= t})

\* np.sum(channel > t)
CountGreater(channel, t) ==
  Cardinality({i \in 1..Len(channel.data) : channel.data[i] > t})

\* ------------------------------------------------------------------------
\* HistogramManager
\* ------------------------------------------------------------------------

\* Mutant of SplitAndCount: the three counts taken over the whole array
\* instead of over one channel each.
SplitAndCountWholeArray(img_array) ==
  LET r_channel == Slice(img_array, 0)
      n == Cardinality({i \in 1..Len(img_array.data) :
                          img_array.data[i] > Threshold})
  IN IF r_channel.exc # "" THEN r_channel
     ELSE Return([r_pixels |-> PyInt(n), g_pixels |-> PyInt(n),
                  b_pixels |-> PyInt(n),
                  total_pixels |-> Size(r_channel.val)])

\* The channel split and the counts, the same in both branches of the test
\* for an alpha channel.
SplitAndCount(img_array) ==
  LET r_channel == Slice(img_array, 0)
      g_channel == Slice(img_array, 1)
      b_channel == Slice(img_array, 2)
  IN IF r_channel.exc # "" THEN r_channel
     ELSE IF g_channel.exc # "" THEN g_channel
     ELSE IF b_channel.exc # "" THEN b_channel
     ELSE Return([r_pixels |-> PyInt(CountGreater(r_channel.val, Threshold)),
                  g_pixels |-> PyInt(CountGreater(g_channel.val, Threshold)),
                  b_pixels |-> PyInt(CountGreater(b_channel.val, Threshold)),
                  total_pixels |-> Size(r_channel.val)])

\* The value returned for an absent image.
AbsentResult ==
  [r_pixels |-> None, g_pixels |-> None, b_pixels |-> None, total_pixels |-> 0]

calculate_rgb_histogram(img) ==
  IF img = None
  THEN Return(AbsentResult)
  ELSE LET img_array == IF Len(img.shape) = 2 THEN Stack3(img) ELSE img
       IN IF Len(img_array.shape) < 3
          THEN Raise("IndexError")
          ELSE IF img_array.shape[3] = 4
               THEN SplitAndCount(img_array)
               ELSE SplitAndCount(img_array)

\* Mutant of Percentage: val / total_pixels * 100 without the zero guard.
PercentageUnguarded(val, total_pixels) ==
  IF val = None THEN Raise("TypeError")
  ELSE IF total_pixels = 0 THEN Raise("ZeroDivisionError")
  ELSE Return(Rat(val.val * 100, total_pixels))

\* val / total_pixels * 100 if total_pixels > 0 else 0
Percentage(val, total_pixels) ==
  IF total_pixels > 0
  THEN IF val = None THEN Raise("TypeError")
       ELSE Return(Rat(val.val * 100, total_pixels))
  ELSE Return(Rat(0, 1))

\* The chart create_histogram draws: the three bars' heights and the raw
\* values of their labels.
create_histogram(r_data, g_data, b_data, total_pixels) ==
  LET values == <<r_data, g_data, b_data>>
      percentages == [i \in 1..3 |-> Percentage(values[i], total_pixels)]
  IN IF \E i \in 1..3 : percentages[i].exc # ""
     THEN Raise("TypeError")
     ELSE Return([percentages |-> [i \in 1..3 |-> percentages[i].val],
                  values |-> values])

\* The FigureCanvasTkAgg widget create_histogram makes: the chart it holds and
\* the call that made it (two widgets holding equal charts are two widgets).
NewCanvas(owner, chart) == [owner |-> owner, chart |-> chart]

update_histogram(img) ==
  LET h == calculate_rgb_histogram(img)
  IN IF h.exc # "" THEN h
     ELSE create_histogram(h.val.r_pixels, h.val.g_pixels, h.val.b_pixels,
                           h.val.total_pixels)

\* ------------------------------------------------------------------------
\* The pixel buffers the analyzer is called on
\* ------------------------------------------------------------------------

\* The pixels a buffer is made of; PixelSample gives channel k (from 1) of each.
PixelKinds == {"black", "white", "red", "green", "blue"}

PixelSample(kind, k) ==
  CASE kind = "black" -> 0
    [] kind = "white" -> 255
    [] kind = "red"   -> IF k = 1 THEN 129 ELSE IF k = 4 THEN 255 ELSE 128
    [] kind = "green" -> IF k = 2 THEN 255 ELSE IF k = 4 THEN 129 ELSE 0
    [] kind = "blue"  -> IF k = 3 THEN 129 ELSE IF k = 4 THEN 0 ELSE 128

\* The buffer of shape `shape` whose leading axes hold the pixels pix, the
\* samples of a pixel being its first `cell` channels.
MkArray(shape, cell, pix) ==
  [shape |-> shape,
   data  |-> [i \in 1..(Len(pix) * cell) |->
                PixelSample(pix[((i - 1) \div cell) + 1], ((i - 1) % cell) + 1)]]

Dims2 == {<<h, w>> : h \in 1..MaxPixels, w \in 1..MaxPixels}

Shapes2 == {s \in Dims2 : s[1] * s[2] <= MaxPixels}

PixelSeqs(n) == [1..n -> PixelKinds]

\* img is an argument the analyzer is called with: no image, or a 1-D
\* (malformed), 2-D (grayscale), 3-D (1..MaxChannels channels) or 4-D
\* (malformed, two samples per channel) buffer.
IsInput(img) ==
  \/ img = None
  \/ \E n \in 1..MaxPixels : \E pix \in PixelSeqs(n) :
       img = MkArray(<<n>>, 1, pix)
  \/ \E s \in Shapes2 : \E pix \in PixelSeqs(s[1] * s[2]) :
       img = MkArray(s, 1, pix)
  \/ \E s \in Shapes2, c \in 1..MaxChannels : \E pix \in PixelSeqs(s[1] * s[2]) :
       img = MkArray(s \o <<c>>, c, pix)
  \/ \E s \in Shapes2, c \in 1..MaxChannels : \E pix \in PixelSeqs(s[1] * s[2]) :
       img = MkArray(s \o <<c, 2>>, 2 * c, pix)

\* ------------------------------------------------------------------------
\* ImageManager
\* ------------------------------------------------------------------------

\* The folder holds at most MaxPaths images.
MaxPaths == 3

\* A file path.
Path(dir, n) == <<dir, n>>

\* The list _get_default_images returns for a folder of n images.
DefaultImages(n) == [i \in 1..n |-> Path("images", i)]

\* What the file dialog can return: a chosen file, or "" on cancel.
NoPath == <<>>

DialogChoices == {NoPath, Path("custom", 1), Path("custom", 2)}

\* load_image(image_path): opened says whether Image.open succeeds. The
\* opened image stands for the file it was read from.
load_image(cur, image_path, opened) ==
  IF opened
  THEN [current_image |-> image_path, ret |-> TRUE, message |-> ""]
  ELSE [current_image |-> cur, ret |-> FALSE, message |-> "showerror"]

\* Mutant of NextIndex: the index stops at the last image instead of wrapping.
NextIndexClamped(index, n) == IF index + 1 < n THEN index + 1 ELSE n - 1

\* (current_image_index + 1) % len(image_paths)
NextIndex(index, n) == (index + 1) % n

\* switch_to_next_image
switch_to_next_image(paths, index, cur, opened) ==
  IF paths = <<>>
  THEN [current_image_index |-> index, current_image |-> cur,
        ret |-> FALSE, message |-> "showwarning"]
  ELSE LET i == NextIndex(index, Len(paths))
           l == load_image(cur, paths[i + 1], opened)
       IN [current_image_index |-> i, current_image |-> l.current_image,
           ret |-> l.ret, message |-> l.message]

\* load_custom_image, file_path being what the file dialog returned
load_custom_image(index, cur, file_path, opened) ==
  IF file_path # NoPath
  THEN LET l == load_image(cur, file_path, opened)
       IN [current_image_index |-> index, current_image |-> l.current_image,
           ret |-> l.ret, message |-> l.message]
  ELSE [current_image_index |-> index, current_image |-> cur,
        ret |-> FALSE, message |-> ""]

\* ------------------------------------------------------------------------
\* MainApplication: threads
\* ------------------------------------------------------------------------

\* At most MaxWorkers worker threads are started.
MaxWorkers == 2

\* The refresh button is clicked at most MaxRefresh times.
MaxRefresh == 1

UI == 0

Workers == 1..MaxWorkers

Threads == {UI} \cup Workers

\* A thread before it runs anything: the UI thread waits for an event, a
\* worker is not started.
IdleThread(t) ==
  [pc |-> IF t = UI THEN "idle" ELSE "unborn", kind |-> "", fn |-> "",
   photo_image |-> None, image_data |-> None]

\* np.array(image): the pixels of the file an opened image was read from, a
\* different valid buffer for every file.
Decode(img) ==
  IF img[1] = "images"
  THEN MkArray(<<1, img[2], 3>>, 3, [i \in 1..img[2] |-> "red"])
  ELSE MkArray(<<img[2], 1>>, 1, [i \in 1..img[2] |-> "white"])

\* ------------------------------------------------------------------------
\* State
\* ------------------------------------------------------------------------

VARIABLES
  image,     \* the image HistogramManager is called on
  ret,       \* outcome of the last calculate_rgb_histogram(image)
  hist,      \* outcome of the last create_histogram / update_histogram
  canvas,    \* HistogramManager.canvas: None, or the chart it holds
  image_paths,          \* ImageManager.image_paths
  current_image_index,  \* ImageManager.current_image_index
  current_image,        \* ImageManager.current_image: None, or the file opened
  call,      \* the last call of ImageManager: its name, result and message box
  trail,     \* the indices the latest consecutive successful switches loaded
  trail_start,  \* current_image_index before the first of them
  current_photo_image,  \* ImageManager.current_photo_image
  picture,      \* the image drawn on image_canvas, None when it is empty
  info_label,   \* the image whose size and format image_info_label shows
  chart_shown,  \* the canvas gridded in histogram_container, None when none is
  next_image_btn,  \* state of the button "switch image"
  load_image_btn,  \* state of the button "load own image"
  timers,       \* pending root.after(100, finalize_display) callbacks
  refreshes,    \* clicks of the refresh button so far
  threads       \* the UI thread (0) and the worker threads: position and locals

analyzerVars == <<image, ret, hist>>

managerVars == <<image_paths, current_image_index, current_image>>

callVars == <<call, trail, trail_start>>

guiVars == <<current_photo_image, picture, info_label, chart_shown,
             next_image_btn, load_image_btn, timers, refreshes, threads>>

vars == <<image, ret, hist, canvas, image_paths, current_image_index,
          current_image, call, trail, trail_start, current_photo_image,
          picture, info_label, chart_shown, next_image_btn, load_image_btn,
          timers, refreshes, threads>>

\* ImageManager.__init__ for a folder of n images, the first of which opens
\* or not.
ManagerInit(n, opened) ==
  /\ current_image_index = 0
  /\ image_paths = DefaultImages(n)
  /\ current_image = IF n > 0
                     THEN load_image(None, DefaultImages(n)[1], opened).current_image
                     ELSE None

NoCall == [op |-> "__init__", ret |-> FALSE, message |-> "", loaded |-> FALSE]

CallIdle ==
  /\ call = NoCall
  /\ trail = <<>>
  /\ trail_start = 0

\* No window: the state of the GUI in the specifications without one.
GuiIdle ==
  /\ current_photo_image = None
  /\ picture = None
  /\ info_label = None
  /\ chart_shown = None
  /\ next_image_btn = "normal"
  /\ load_image_btn = "normal"
  /\ timers = 0
  /\ refreshes = 0
  /\ threads = [t \in Threads |-> IdleThread(t)]

AnalyzerIdle ==
  /\ image = None
  /\ ret = NotCalled
  /\ hist = NotCalled

Init ==
  /\ IsInput(image)
  /\ ret = NotCalled
  /\ hist = NotCalled
  /\ canvas = None
  /\ ManagerInit(0, FALSE)
  /\ CallIdle
  /\ GuiIdle

\* ret = calculate_rgb_histogram(image)
Calculate ==
  /\ ret = NotCalled
  /\ ret' = calculate_rgb_histogram(image)
  /\ UNCHANGED <<image, hist, canvas, managerVars, callVars, guiVars>>

\* create_histogram(parent_frame, *ret): the presentation side fed with a
\* returned result.
CreateHistogram ==
  /\ ret # NotCalled
  /\ ret.exc = ""
  /\ hist = NotCalled
  /\ hist' = create_histogram(ret.val.r_pixels, ret.val.g_pixels,
                              ret.val.b_pixels, ret.val.total_pixels)
  /\ canvas' = IF hist'.exc = "" THEN NewCanvas(<<"caller", 0>>, hist'.val) ELSE canvas
  /\ UNCHANGED <<image, ret, managerVars, callVars, guiVars>>

\* update_histogram(parent_frame, image)
UpdateHistogram ==
  /\ hist = NotCalled
  /\ hist' = update_histogram(image)
  /\ canvas' = IF hist'.exc = "" THEN NewCanvas(<<"caller", 0>>, hist'.val) ELSE canvas
  /\ UNCHANGED <<image, ret, managerVars, callVars, guiVars>>

Next == Calculate \/ CreateHistogram \/ UpdateHistogram

Spec == Init /\ [][Next]_vars

\* ------------------------------------------------------------------------
\* LoaderSpec: sequential calls of ImageManager
\* ------------------------------------------------------------------------

LoaderInit ==
  /\ \E n \in 0..MaxPaths, opened \in BOOLEAN : ManagerInit(n, opened)
  /\ CallIdle
  /\ AnalyzerIdle
  /\ canvas = None
  /\ GuiIdle

\* image_manager.switch_to_next_image()
SwitchToNextImage ==
  \E opened \in BOOLEAN :
    LET r == switch_to_next_image(image_paths, current_image_index,
                                  current_image, opened)
        fresh == trail = <<>> \/ Len(trail) >= Len(image_paths)
    IN /\ current_image_index' = r.current_image_index
       /\ current_image' = r.current_image
       /\ call' = [op |-> "switch_to_next_image", ret |-> r.ret,
                   message |-> r.message, loaded |-> image_paths # <<>>]
       /\ trail' = IF ~r.ret THEN <<>>
                   ELSE IF fresh THEN <<r.current_image_index>>
                   ELSE Append(trail, r.current_image_index)
       /\ trail_start' = IF r.ret /\ fresh THEN current_image_index
                         ELSE trail_start
       /\ UNCHANGED <<image_paths, analyzerVars, canvas, guiVars>>

\* image_manager.load_custom_image()
LoadCustomImage ==
  \E file_path \in DialogChoices, opened \in BOOLEAN :
    LET r == load_custom_image(current_image_index, current_image,
                               file_path, opened)
    IN /\ current_image_index' = r.current_image_index
       /\ current_image' = r.current_image
       /\ call' = [op |-> "load_custom_image", ret |-> r.ret,
                   message |-> r.message, loaded |-> file_path # NoPath]
       /\ trail' = <<>>
       /\ UNCHANGED <<trail_start, image_paths, analyzerVars, canvas, guiVars>>

LoaderNext == SwitchToNextImage \/ LoadCustomImage

LoaderSpec == LoaderInit /\ [][LoaderNext]_vars

\* ------------------------------------------------------------------------
\* Properties of ImageManager (checked under LoaderSpec)
\* ------------------------------------------------------------------------

\* C4: a call in which load_image returned False leaves current_image and
\* current_image_index as they were before the call.
C4_FailedLoadKeepsState ==
  [][(call'.loaded /\ ~call'.ret) =>
       /\ current_image' = current_image
       /\ current_image_index' = current_image_index]_vars

\* What C9 says of one call.
C9_Step ==
  /\ (call'.op = "switch_to_next_image" /\ image_paths # <<>>) =>
       current_image_index' = (current_image_index + 1) % Len(image_paths)
  /\ (call'.op = "switch_to_next_image" /\ image_paths = <<>>) =>
       /\ ~call'.ret
       /\ current_image_index' = current_image_index
       /\ current_image' = current_image
  /\ call'.op = "load_custom_image" =>
       current_image_index' = current_image_index
  /\ (call'.op = "switch_to_next_image" /\ call'.ret) =>
       current_image' = image_paths[current_image_index' + 1]

\* What C9 says of every state: the index is in range, and len(image_paths)
\* consecutive successful switches have loaded every path once, the last of
\* them the path the index started from.
C9_State ==
  /\ image_paths # <<>> => current_image_index \in 0..(Len(image_paths) - 1)
  /\ (image_paths # <<>> /\ Len(trail) = Len(image_paths)) =>
       /\ {trail[i] : i \in 1..Len(trail)} = 0..(Len(image_paths) - 1)
       /\ trail[Len(trail)] = trail_start
       /\ current_image_index = trail_start
       /\ current_image = image_paths[trail_start + 1]

\* C9: with n paths the index stays in 0..n-1, each switch_to_next_image moves
\* it to (index + 1) mod n, n consecutive successful switches visit every path
\* exactly once and return to the starting index, and load_custom_image never
\* changes it; with no paths switch_to_next_image returns False and changes
\* neither the index nor current_image.
C9_IndexCycles == [](C9_State) /\ [][C9_Step]_vars

\* MaxPaths consecutive successful switches have been made from a start other
\* than index 0.
C9_Witness ==
  /\ Len(image_paths) = MaxPaths
  /\ Len(trail) = MaxPaths
  /\ trail_start # 0
  /\ call.op = "switch_to_next_image"

\* ------------------------------------------------------------------------
\* GuiSpec: the UI thread and the worker threads of MainApplication
\* ------------------------------------------------------------------------

\* The chart update_histogram draws for an opened image.
ChartOf(img) == update_histogram(Decode(img)).val

\* The state after MainApplication.__init__: setup_ui and one update_display,
\* run before any other thread exists.
GuiInit ==
  /\ \E n \in 0..MaxPaths, opened \in BOOLEAN : ManagerInit(n, opened)
  /\ CallIdle
  /\ AnalyzerIdle
  /\ current_photo_image = current_image
  /\ picture = current_image
  /\ info_label = current_image
  /\ canvas = IF current_image = None THEN None
              ELSE NewCanvas(<<"__init__", 0>>, ChartOf(current_image))
  /\ chart_shown = canvas
  /\ next_image_btn = "normal"
  /\ load_image_btn = "normal"
  /\ timers = 1
  /\ refreshes = 0
  /\ threads = [t \in Threads |-> IdleThread(t)]

Goto(t, pc) == [threads EXCEPT ![t].pc = pc]

\* switch_image: the click starts a thread running switch_thread.
ClickSwitch ==
  /\ threads[UI].pc = "idle"
  /\ next_image_btn = "normal"
  /\ \E w \in Workers :
       /\ threads[w].pc = "unborn"
       /\ threads' = [threads EXCEPT ![w].pc = "start", ![w].kind = "switch"]
  /\ UNCHANGED <<analyzerVars, canvas, managerVars, callVars,
                 current_photo_image, picture, info_label, chart_shown,
                 next_image_btn, load_image_btn, timers, refreshes>>

\* load_custom_image: the click starts a thread running load_thread.
ClickLoad ==
  /\ threads[UI].pc = "idle"
  /\ load_image_btn = "normal"
  /\ \E w \in Workers :
       /\ threads[w].pc = "unborn"
       /\ threads' = [threads EXCEPT ![w].pc = "start", ![w].kind = "load"]
  /\ UNCHANGED <<analyzerVars, canvas, managerVars, callVars,
                 current_photo_image, picture, info_label, chart_shown,
                 next_image_btn, load_image_btn, timers, refreshes>>

\* The refresh button: update_display on the UI thread.
ClickRefresh ==
  /\ threads[UI].pc = "idle"
  /\ refreshes < MaxRefresh
  /\ refreshes' = refreshes + 1
  /\ threads' = [threads EXCEPT ![UI].pc = "scale", ![UI].fn = "update_display"]
  /\ UNCHANGED <<analyzerVars, canvas, managerVars, callVars,
                 current_photo_image, picture, info_label, chart_shown,
                 next_image_btn, load_image_btn, timers>>

\* A root.after callback comes due: finalize_display on the UI thread, the
\* canvas being laid out by then.
TimerFires ==
  /\ threads[UI].pc = "idle"
  /\ timers > 0
  /\ timers' = timers - 1
  /\ threads' = [threads EXCEPT ![UI].pc = "scale", ![UI].fn = "finalize_display"]
  /\ UNCHANGED <<analyzerVars, canvas, managerVars, callVars,
                 current_photo_image, picture, info_label, chart_shown,
                 next_image_btn, load_image_btn, refreshes>>

\* switch_thread / load_thread: the button is disabled.
WorkerStart ==
  \E w \in Workers :
    /\ threads[w].pc = "start"
    /\ IF threads[w].kind = "switch"
       THEN next_image_btn' = "disabled" /\ UNCHANGED load_image_btn
       ELSE load_image_btn' = "disabled" /\ UNCHANGED next_image_btn
    /\ threads' = Goto(w, "call")
    /\ UNCHANGED <<analyzerVars, canvas, managerVars, callVars,
                   current_photo_image, picture, info_label, chart_shown,
                   timers, refreshes>>

\* switch_thread: if self.image_manager.switch_to_next_image():
SwitchCall ==
  \E w \in Workers, opened \in BOOLEAN :
    /\ threads[w].pc = "call"
    /\ threads[w].kind = "switch"
    /\ LET r == switch_to_next_image(image_paths, current_image_index,
                                     current_image, opened)
       IN /\ current_image_index' = r.current_image_index
          /\ current_image' = r.current_image
          /\ threads' = IF r.ret
                        THEN [threads EXCEPT ![w].pc = "scale",
                                             ![w].fn = "update_display"]
                        ELSE Goto(w, "btn_normal")
    /\ UNCHANGED <<analyzerVars, canvas, image_paths, callVars,
                   current_photo_image, picture, info_label, chart_shown,
                   next_image_btn, load_image_btn, timers, refreshes>>

\* load_thread: if self.image_manager.load_custom_image():
LoadCall ==
  \E w \in Workers, file_path \in DialogChoices, opened \in BOOLEAN :
    /\ threads[w].pc = "call"
    /\ threads[w].kind = "load"
    /\ LET r == load_custom_image(current_image_index, current_image,
                                  file_path, opened)
       IN /\ current_image_index' = r.current_image_index
          /\ current_image' = r.current_image
          /\ threads' = IF r.ret
                        THEN [threads EXCEPT ![w].pc = "scale",
                                             ![w].fn = "update_display"]
                        ELSE Goto(w, "btn_normal")
    /\ UNCHANGED <<analyzerVars, canvas, image_paths, callVars,
                   current_photo_image, picture, info_label, chart_shown,
                   next_image_btn, load_image_btn, timers, refreshes>>

\* photo_image = self.image_manager.get_scaled_image(...), in update_display
\* and in finalize_display: the scaled copy of current_image, or None.
Scale ==
  \E t \in Threads :
    /\ threads[t].pc = "scale"
    /\ current_photo_image' = IF current_image = None THEN current_photo_image
                              ELSE current_image
    /\ threads' = [threads EXCEPT ![t].pc = "draw",
                                  ![t].photo_image = current_image]
    /\ UNCHANGED <<analyzerVars, canvas, managerVars, callVars, picture,
                   info_label, chart_shown, next_image_btn, load_image_btn,
                   timers, refreshes>>

\* if photo_image: the canvas is cleared and the picture drawn; update_display
\* also sets the label from current_image.
Draw ==
  \E t \in Threads :
    /\ threads[t].pc = "draw"
    /\ picture' = IF threads[t].photo_image # None THEN threads[t].photo_image
                  ELSE picture
    /\ info_label' = IF /\ threads[t].fn = "update_display"
                        /\ threads[t].photo_image # None
                        /\ current_image # None
                     THEN current_image ELSE info_label
    /\ threads' = Goto(t, IF threads[t].fn = "update_display" THEN "data"
                          ELSE "idle")
    /\ UNCHANGED <<analyzerVars, canvas, managerVars, callVars,
                   current_photo_image, chart_shown, next_image_btn,
                   load_image_btn, timers, refreshes>>

\* image_data = self.image_manager.get_image_data()
ReadData ==
  \E t \in Threads :
    /\ threads[t].pc = "data"
    /\ threads' = [threads EXCEPT ![t].pc = "hist",
                                  ![t].image_data = current_image]
    /\ UNCHANGED <<analyzerVars, canvas, managerVars, callVars,
                   current_photo_image, picture, info_label, chart_shown,
                   next_image_btn, load_image_btn, timers, refreshes>>

\* if image_data: update_histogram(...): the old canvas is destroyed and a
\* new one made from image_data.
Hist ==
  \E t \in Threads :
    /\ threads[t].pc = "hist"
    /\ IF threads[t].image_data # None
       THEN /\ canvas' = NewCanvas(<<"thread", t>>, ChartOf(threads[t].image_data))
            /\ chart_shown' = IF chart_shown = canvas THEN None ELSE chart_shown
       ELSE UNCHANGED <<canvas, chart_shown>>
    /\ threads' = Goto(t, "grid")
    /\ UNCHANGED <<analyzerVars, managerVars, callVars, current_photo_image,
                   picture, info_label, next_image_btn, load_image_btn,
                   timers, refreshes>>

\* The canvas the manager holds now is gridded (if image_data), and
\* finalize_display is scheduled.
Grid ==
  \E t \in Threads :
    /\ threads[t].pc = "grid"
    /\ chart_shown' = IF threads[t].image_data # None /\ canvas # None
                      THEN canvas ELSE chart_shown
    /\ timers' = timers + 1
    /\ threads' = Goto(t, IF t = UI THEN "idle" ELSE "btn_normal")
    /\ UNCHANGED <<analyzerVars, canvas, managerVars, callVars,
                   current_photo_image, picture, info_label, next_image_btn,
                   load_image_btn, refreshes>>

\* switch_thread / load_thread: the button is enabled again and the thread ends.
ButtonNormal ==
  \E w \in Workers :
    /\ threads[w].pc = "btn_normal"
    /\ IF threads[w].kind = "switch"
       THEN next_image_btn' = "normal" /\ UNCHANGED load_image_btn
       ELSE load_image_btn' = "normal" /\ UNCHANGED next_image_btn
    /\ threads' = Goto(w, "done")
    /\ UNCHANGED <<analyzerVars, canvas, managerVars, callVars,
                   current_photo_image, picture, info_label, chart_shown,
                   timers, refreshes>>

GuiNext ==
  \/ ClickSwitch \/ ClickLoad \/ ClickRefresh \/ TimerFires
  \/ WorkerStart \/ SwitchCall \/ LoadCall
  \/ Scale \/ Draw \/ ReadData \/ Hist \/ Grid \/ ButtonNormal

GuiSpec == GuiInit /\ [][GuiNext]_vars

\* ------------------------------------------------------------------------
\* Properties of MainApplication (checked under GuiSpec)
\* ------------------------------------------------------------------------

\* No worker is running, the UI thread waits and no callback is pending.
Quiescent ==
  /\ \A w \in Workers : threads[w].pc \in {"unborn", "done"}
  /\ threads[UI].pc = "idle"
  /\ timers = 0

\* C10: under every interleaving of the workers and the UI thread, once all
\* of them have finished the picture shown and the chart shown both belong
\* to the final current_image.
C10_PictureAndChartAgree ==
  Quiescent =>
    /\ picture = current_image
    /\ IF current_image = None
       THEN chart_shown = None
       ELSE chart_shown # None /\ chart_shown.chart = ChartOf(current_image)

\* ------------------------------------------------------------------------
\* Properties of HistogramManager (checked under Spec)
\* ------------------------------------------------------------------------

IsRGB(img) == img # None /\ Len(img.shape) = 3 /\ img.shape[3] \in {3, 4}

IsGray(img) == img # None /\ Len(img.shape) = 2

\* The shapes of the data model: (H, W), (H, W, 3), (H, W, 4).
IsValid(img) == IsGray(img) \/ IsRGB(img)

\* Neither 2-D nor 3-D, or 3-D with a channel count outside {1, 3, 4}.
IsMalformed(img) ==
  /\ img # None
  /\ \/ Len(img.shape) \notin {2, 3}
     \/ Len(img.shape) = 3 /\ img.shape[3] \notin {1, 3, 4}

\* The number of pixels of a 3-D buffer whose sample in channel ch (from 1)
\* is strictly greater than 128, read off the buffer sample by sample.
BrightPixels(img, ch) ==
  Cardinality({p \in 0..(img.shape[1] * img.shape[2] - 1) :
                 img.data[p * img.shape[3] + ch] > 128})

\* A 4-channel buffer without its fourth channel.
StripAlpha(img) ==
  [shape |-> <<img.shape[1], img.shape[2], 3>>,
   data  |-> [i \in 1..(img.shape[1] * img.shape[2] * 3) |->
                img.data[((i - 1) \div 3) * 4 + ((i - 1) % 3) + 1]]]

Samples(img) == {img.data[i] : i \in 1..Len(img.data)}

\* C1: calculate_rgb_histogram of an absent image returns red = 0, green = 0,
\* blue = 0, total_pixels = 0 and raises nothing.
C1_AbsentImageAllZero ==
  (image = None /\ ret # NotCalled) =>
    /\ ret.exc = ""
    /\ ret.val.r_pixels = PyInt(0)
    /\ ret.val.g_pixels = PyInt(0)
    /\ ret.val.b_pixels = PyInt(0)
    /\ ret.val.total_pixels = 0

\* C2: for a buffer of shape (H, W, 3) or (H, W, 4) the returned red, green
\* and blue are the numbers of pixels whose sample in channel 0, 1, 2 is
\* strictly greater than 128, each channel on its own, and an RGBA buffer
\* gives what the same buffer without its alpha channel gives.
C2_CountsStrictlyAbove128 ==
  (IsRGB(image) /\ ret # NotCalled) =>
    /\ ret.exc = ""
    /\ ret.val.r_pixels = PyInt(BrightPixels(image, 1))
    /\ ret.val.g_pixels = PyInt(BrightPixels(image, 2))
    /\ ret.val.b_pixels = PyInt(BrightPixels(image, 3))
    /\ image.shape[3] = 4 => ret = calculate_rgb_histogram(StripAlpha(image))

\* An RGBA buffer holding a 128 and a 129 in its colour channels, whose
\* channels differ in their counts and whose alpha is bright where red is
\* not, has been analysed.
C2_Witness ==
  /\ IsRGB(image) /\ image.shape[3] = 4
  /\ ret # NotCalled
  /\ \E p \in 0..(image.shape[1] * image.shape[2] - 1) :
       /\ image.data[p * 4 + 1] = 128
       /\ image.data[p * 4 + 3] = 129
       /\ image.data[p * 4 + 4] = 0
  /\ \E p \in 0..(image.shape[1] * image.shape[2] - 1) :
       image.data[p * 4 + 1] = 0 /\ image.data[p * 4 + 4] = 129
  /\ BrightPixels(image, 1) # BrightPixels(image, 2)
  /\ BrightPixels(image, 2) # BrightPixels(image, 3)

\* C3: calculate_rgb_histogram of a malformed buffer raises; it never
\* returns a result.
C3_MalformedRaises ==
  (IsMalformed(image) /\ ret # NotCalled) => ret.exc # ""

\* C5: the percentage of create_histogram is count / total_pixels * 100 when
\* total_pixels > 0 and 0 when total_pixels = 0; the result for an absent
\* image gives three percentages of 0 and no error, and every percentage of a
\* valid image lies in 0..100.
C5_PercentageZeroGuard ==
  (hist # NotCalled /\ calculate_rgb_histogram(image).exc = "") =>
    LET h == calculate_rgb_histogram(image).val
        counts == <<h.r_pixels, h.g_pixels, h.b_pixels>>
    IN /\ hist.exc = ""
       /\ \A i \in 1..3 :
            LET p == hist.val.percentages[i]
            IN /\ p.den > 0
               /\ IF h.total_pixels > 0
                  THEN p.num * h.total_pixels = counts[i].val * 100 * p.den
                  ELSE p.num = 0
               /\ IsValid(image) => (0 <= p.num /\ p.num <= 100 * p.den)
       /\ image = None => hist.val.percentages = <<Rat(0, 1), Rat(0, 1), Rat(0, 1)>>

\* The chart of an absent image has been drawn.
C5_Witness ==
  /\ image = None
  /\ hist # NotCalled
  /\ hist.exc = ""
  /\ canvas = NewCanvas(<<"caller", 0>>, hist.val)

\* C6: for a valid image 0 <= red, green, blue <= total_pixels; an all-0
\* image gives three counts of 0 and an all-255 image three counts of
\* total_pixels.
C6_CountsWithinTotal ==
  (IsValid(image) /\ ret # NotCalled) =>
    /\ ret.exc = ""
    /\ \A c \in {ret.val.r_pixels, ret.val.g_pixels, ret.val.b_pixels} :
         /\ c.tag = "int"
         /\ 0 <= c.val /\ c.val <= ret.val.total_pixels
         /\ Samples(image) = {0} => c.val = 0
         /\ Samples(image) = {255} => c.val = ret.val.total_pixels

\* An all-255 image of several pixels has been analysed.
C6_Witness ==
  /\ IsValid(image)
  /\ Samples(image) = {255}
  /\ image.shape[1] * image.shape[2] >= 2
  /\ ret # NotCalled

\* C7: for a valid image total_pixels = H * W, for each of the shapes
\* (H, W), (H, W, 3) and (H, W, 4).
C7_TotalIsHeightTimesWidth ==
  (IsValid(image) /\ ret # NotCalled) =>
    /\ ret.exc = ""
    /\ ret.val.total_pixels = image.shape[1] * image.shape[2]

\* An RGBA image of several pixels has been analysed.
C7_Witness ==
  /\ IsRGB(image) /\ image.shape[3] = 4
  /\ image.shape[1] * image.shape[2] >= 2
  /\ ret # NotCalled

\* C8: for a 2-D buffer red = green = blue = the number of samples strictly
\* greater than 128.
C8_GrayscaleReplicated ==
  (IsGray(image) /\ ret # NotCalled) =>
    LET n == Cardinality({i \in 1..Len(image.data) : image.data[i] > 128})
    IN /\ ret.exc = ""
       /\ ret.val.r_pixels = PyInt(n)
       /\ ret.val.g_pixels = PyInt(n)
       /\ ret.val.b_pixels = PyInt(n)

\* A grayscale buffer holding a 128 and a 129 has been analysed.
C8_Witness ==
  /\ IsGray(image)
  /\ {128, 129} \subseteq Samples(image)
  /\ ret # NotCalled

=============================================================================
